---- MODULE Spec2Model ----
(***************************************************************************)
(* A state-machine model of the flow editor component                      *)
(* rnd/autogpt_builder/src/components/Flow.tsx: the Graph Model (nodes,    *)
(* edges, per-node connection caches), the command history it pushes to,   *)
(* copy/paste, and the save/remap cycle against the remote service.        *)
(*                                                                         *)
(* React state is modelled by the variables; one action is one event       *)
(* handler run to completion.  Functional updaters (setNodes(nds => ...))  *)
(* queued by one handler compose in the order they are queued; the values  *)
(* `nodes` and `edges` a handler reads are those of the render before the  *)
(* event.  An async handler keeps reading the values of the render in      *)
(* which it was called after every await.                                  *)
(*                                                                         *)
(* A node's `data` fields are flattened into the node record.  The node's  *)
(* inputSchema/outputSchema are copied from the immutable block catalog at *)
(* creation and never changed, so they are looked up by block_id.  The     *)
(* edge's display fields (type, markerEnd, data.edgeColor, data.sourcePos) *)
(* are not kept: only the call that computes them is, since it can throw.  *)
(***************************************************************************)
EXTENDS Integers, Sequences, FiniteSets, TLC

VARIABLES
  nodes,               \* useState nodes (line 83): sequence of node records
  edges,               \* useState edges (line 84): sequence of edge records
  nodeId,              \* useState nodeId (line 85): the local id counter
  savedAgent,          \* useState savedAgent (line 88): last saved graph or NoAgent
  copiedNodes,         \* useState copiedNodes (line 91)
  copiedEdges,         \* useState copiedEdges (line 92)
  initialPositionRef,  \* useRef (line 96): node id -> position at drag start
  isDragging,          \* useRef (line 97)
  history,             \* the imported history singleton (line 26): [log, cursor]
  inflight,            \* saveAgent calls awaiting the remote service
  clock,               \* the value Date.now() returns (line 697)
  remoteCalls,         \* observer: number of create/update calls issued so far
  lastSave             \* observer: facts about the most recent saveAgent call

vars == <<nodes, edges, nodeId, savedAgent, copiedNodes, copiedEdges,
          initialPositionRef, isDragging, history, inflight, clock,
          remoteCalls, lastSave>>

graphVars == <<nodes, edges, nodeId>>

(***************************************************************************)
(* Bounds of the model: each specification stops at its own caps.          *)
(***************************************************************************)
MaxNodesEdit == 2     \* SpecEdit: nodes created
MaxLogEdit == 4       \* SpecEdit: commands in the history log
MaxEdgesEdit == 2     \* SpecEdit: edges in the edge list
MaxConnsEdit == 4     \* SpecEdit: entries in one node's connection list
MaxNodesHist == 2     \* SpecHistory: nodes created
MaxLogHist == 3       \* SpecHistory: commands in the history log
MaxNodesSave == 2     \* SpecSave: nodes created
MaxLogSave == 2       \* SpecSave: commands in the history log
MaxInflight == 1      \* SpecSave: saveAgent calls awaiting the service at one time
MaxCalls == 2         \* SpecSave: create/update requests issued in one behaviour
MaxNodesSync == 2     \* SpecSync: nodes created
MaxCallsSync == 2     \* SpecSync: create/update requests issued in one behaviour
MaxAddedPaste == 2    \* SpecPaste: nodes created with addNode
MaxNodesPaste == 4    \* SpecPaste: nodes in the graph
MaxLogClip == 3       \* SpecClipboard: commands in the history log
MaxNodesClip == 4     \* SpecClipboard: nodes in the graph
MaxEdgesClip == 2     \* SpecClipboard: edges in the edge list
MaxClock == 1         \* SpecClipboard: the latest time a paste happens at
MaxNodesCompose == 1  \* SpecCompose: nodes created
MaxNodesRace == 1     \* SpecRace: nodes created
MaxInflightRace == 2  \* SpecRace: saveAgent calls under way at one time
MaxCallsRace == 2     \* SpecRace: create/update requests issued in one behaviour
MaxNodesConnect == 2  \* SpecConnect: nodes created
MaxLogConnect == 6    \* SpecConnect: commands in the history log
MaxEdgesConnect == 2  \* SpecConnect: edges in the edge list
MaxConnsConnect == 4  \* SpecConnect: entries in one node's connection list
MaxNodesCopy == 3     \* SpecCopy: nodes created or pasted
MaxLogCopy == 2       \* SpecCopy: commands in the history log
MaxEdgesCopy == 1     \* SpecCopy: edges in the edge list
MaxNodesRemove == 2   \* SpecRemove: nodes created
MaxLogRemove == 5     \* SpecRemove: commands in the history log
MaxEdgesRemove == 2   \* SpecRemove: edges in the edge list
MaxConnsRemove == 4   \* SpecRemove: entries in one node's connection list
MaxNodesLoad == 2     \* SpecLoad: nodes created with addNode
MaxCallsLoad == 1     \* SpecLoad: create/update requests issued in one behaviour
MaxCallsCompose == 1  \* SpecCompose: create/update requests issued in one behaviour

(***************************************************************************)
(* Values.                                                                 *)
(***************************************************************************)
Undefined == "undefined"
NoAgent == [id |-> Undefined]

Pos(x, y) == [x |-> x, y |-> y]

\* const MINIMUM_MOVE_BEFORE_LOG = 50
MINIMUM_MOVE_BEFORE_LOG == 50

\* The block catalog (availableNodes): immutable once fetched.  A schema is
\* [properties: name -> property schema, additionalProperties].
StringProp == [type |-> "string"]
ObjectProp == [type |-> "object", properties |-> [k |-> StringProp],
               additionalProperties |-> FALSE]
availableNodes ==
  << [id |-> "bA", name |-> "A",
      inputSchema |-> [properties |-> [in1 |-> StringProp, in2 |-> StringProp],
                       additionalProperties |-> FALSE],
      outputSchema |-> [properties |-> [out1 |-> StringProp, out2 |-> StringProp],
                        additionalProperties |-> FALSE]],
     [id |-> "bB", name |-> "B",
      inputSchema |-> [properties |-> [in1 |-> StringProp],
                       additionalProperties |-> TRUE],
      outputSchema |-> [properties |-> [out1 |-> StringProp],
                        additionalProperties |-> FALSE]],
     [id |-> "bC", name |-> "C",
      inputSchema |-> [properties |-> [in1 |-> StringProp, cfg |-> ObjectProp],
                       additionalProperties |-> FALSE],
      outputSchema |-> [properties |-> [out1 |-> StringProp],
                        additionalProperties |-> FALSE]],
     [id |-> "bD", name |-> "D",
      inputSchema |-> [properties |-> [in1 |-> StringProp, cfg |-> ObjectProp],
                       additionalProperties |-> TRUE],
      outputSchema |-> [properties |-> [out1 |-> StringProp],
                        additionalProperties |-> FALSE]] >>

(***************************************************************************)
(* Sequence helpers (Array.prototype.map / filter / find / some).          *)
(***************************************************************************)
Range(s) == {s[i] : i \in 1..Len(s)}
SeqMap(F(_), s) == [i \in 1..Len(s) |-> F(s[i])]
Some(P(_), s) == \E i \in 1..Len(s) : P(s[i])
\* Array.prototype.find: the first element satisfying P (callers test Some first)
Find(P(_), s) == s[CHOOSE i \in 1..Len(s) : P(s[i]) /\ \A j \in 1..(i-1) : ~P(s[j])]

FindBlock(blockId) == Find(LAMBDA b : b.id = blockId, availableNodes)
HasBlock(blockId) == Some(LAMBDA b : b.id = blockId, availableNodes)

HasNode(nds, id) == Some(LAMBDA n : n.id = id, nds)
FindNode(nds, id) == Find(LAMBDA n : n.id = id, nds)
NodeIds(nds) == {nds[i].id : i \in 1..Len(nds)}

(***************************************************************************)
(* The history module (./history, line 26).                                *)
(***************************************************************************)
\* a push that keeps the redo tail
HistoryPushKeepsTail(h, cmd) ==
  [log |-> SubSeq(h.log, 1, h.cursor) \o <<cmd>> \o SubSeq(h.log, h.cursor + 1, Len(h.log)),
   cursor |-> h.cursor + 1]

\* a push that moves the cursor past the end of the log it found
HistoryPushPastOldEnd(h, cmd) ==
  [log |-> Append(SubSeq(h.log, 1, h.cursor), cmd), cursor |-> Len(h.log) + 1]

HistoryPush(h, cmd) ==
  [log |-> Append(SubSeq(h.log, 1, h.cursor), cmd), cursor |-> h.cursor + 1]
canUndo(h) == h.cursor > 0
canRedo(h) == h.cursor < Len(h.log)

RECURSIVE HistoryPushAll(_, _)
HistoryPushAll(h, cmds) ==
  IF cmds = <<>> THEN h
  ELSE HistoryPushAll(HistoryPush(h, Head(cmds)), Tail(cmds))

(***************************************************************************)
(* reactflow library functions used by the handlers.                       *)
(***************************************************************************)
\* connectionExists: same source, target and handles
connectionExists(edge, eds) ==
  Some(LAMBDA el : /\ el.source = edge.source
                   /\ el.target = edge.target
                   /\ el.sourceHandle = edge.sourceHandle
                   /\ el.targetHandle = edge.targetHandle, eds)
\* addEdge: appends unless the same connection is already there
addEdge(edge, eds) == IF connectionExists(edge, eds) THEN eds ELSE Append(eds, edge)
\* applyNodeChanges / applyEdgeChanges for a list of 'remove' changes
applyRemoveChanges(ids, elems) == SelectSeq(elems, LAMBDA el : el.id \notin ids)
\* applyNodeChanges for one 'position' change
applyPositionChange(id, pos, nds) ==
  SeqMap(LAMBDA n : IF n.id = id THEN [n EXCEPT !.position = pos] ELSE n, nds)
\* applyNodeChanges / applyEdgeChanges for 'select' changes making `ids` the selection
applySelectChanges(ids, elems) ==
  SeqMap(LAMBDA el : [el EXCEPT !.selected = (el.id \in ids)], elems)

(***************************************************************************)
(* updateNodesOnEdgeChange (lines 254-283)                                 *)
(***************************************************************************)
ConnOf(edge) ==
  [source |-> edge.source, sourceHandle |-> edge.sourceHandle,
   target |-> edge.target, targetHandle |-> edge.targetHandle]

SameConn(conn, edge) ==
  /\ conn.source = edge.source
  /\ conn.target = edge.target
  /\ conn.sourceHandle = edge.sourceHandle
  /\ conn.targetHandle = edge.targetHandle

updateNodesOnEdgeChange(nds, edge, action) ==
  SeqMap(LAMBDA node :
           IF node.id = edge.source \/ node.id = edge.target
           THEN [node EXCEPT !.connections =
                   IF action = "add"
                   THEN Append(node.connections, ConnOf(edge))
                   ELSE SelectSeq(node.connections, LAMBDA conn : ~SameConn(conn, edge))]
           ELSE node,
         nds)

(***************************************************************************)
(* Commands: [type, payload].  The undo and redo closures of a command are *)
(* the functional updaters below; they act on the state current when the   *)
(* history invokes them.  g is [nodes, edges].                             *)
(***************************************************************************)
Cmd(type, payload) == [type |-> type, payload |-> payload]

\* the undo closures: lines 166, 186/223, 239, 321-324, 419
ApplyUndo(cmd, g) ==
  CASE cmd.type = "ADD_NODE" ->
         [g EXCEPT !.nodes = SelectSeq(g.nodes, LAMBDA node : node.id # cmd.payload.id)]
    [] cmd.type = "DELETE_NODE" ->
         [g EXCEPT !.nodes = Append(g.nodes, cmd.payload)]
    [] cmd.type = "ADD_EDGE" ->
         [nodes |-> updateNodesOnEdgeChange(g.nodes, cmd.payload, "remove"),
          edges |-> SelectSeq(g.edges, LAMBDA edge : edge.id # cmd.payload.id)]
    [] cmd.type = "DELETE_EDGE" ->
         [g EXCEPT !.edges = Append(g.edges, cmd.payload)]
    [] cmd.type = "UPDATE_NODE_POSITION" ->
         [g EXCEPT !.nodes =
            SeqMap(LAMBDA node : IF node.id = cmd.payload.nodeId
                                 THEN [node EXCEPT !.position = cmd.payload.oldPosition]
                                 ELSE node, g.nodes)]

\* the redo closures: lines 167, 187/224, 240-243, 325-328, 420
ApplyRedo(cmd, g) ==
  CASE cmd.type = "ADD_NODE" ->
         [g EXCEPT !.nodes = Append(g.nodes, cmd.payload)]
    [] cmd.type = "DELETE_NODE" ->
         [g EXCEPT !.nodes = SelectSeq(g.nodes, LAMBDA node : node.id # cmd.payload.id)]
    [] cmd.type = "ADD_EDGE" ->
         [nodes |-> updateNodesOnEdgeChange(g.nodes, cmd.payload, "add"),
          edges |-> addEdge(cmd.payload, g.edges)]
    [] cmd.type = "DELETE_EDGE" ->
         [nodes |-> updateNodesOnEdgeChange(g.nodes, cmd.payload, "add"),
          edges |-> addEdge(cmd.payload, g.edges)]
    [] cmd.type = "UPDATE_NODE_POSITION" ->
         [g EXCEPT !.nodes =
            SeqMap(LAMBDA node : IF node.id = cmd.payload.nodeId
                                 THEN [node EXCEPT !.position = cmd.payload.newPosition]
                                 ELSE node, g.nodes)]

(***************************************************************************)
(* Observers.  A user edit marks every save in flight as edited; any other *)
(* change of the nodes while a save is in flight marks it as touched.      *)
(***************************************************************************)
MarkEdited(fl) == SeqMap(LAMBDA s : [s EXCEPT !.edited = TRUE, !.touched = TRUE], fl)
MarkTouched(fl) == SeqMap(LAMBDA s : [s EXCEPT !.touched = TRUE], fl)

\* a user edit happened: the next save is no longer "without intervening mutation"
Dirty(ls) == [ls EXCEPT !.clean = FALSE]

(***************************************************************************)
(* addNode (lines 383-422)                                                 *)
(***************************************************************************)
NewNode(blockId, nodeType, pos) ==
  [id |-> ToString(nodeId),
   position |-> pos,
   selected |-> FALSE,
   blockType |-> nodeType,
   title |-> nodeType \o " " \o ToString(nodeId),
   hardcodedValues |-> <<>>,
   connections |-> <<>>,
   isOutputOpen |-> FALSE,
   status |-> Undefined,
   output_data |-> Undefined,
   block_id |-> blockId,
   backend_id |-> Undefined]

addNode(blockId, nodeType, pos) ==
  /\ ~isDragging
  /\ IF ~HasBlock(blockId)
     THEN UNCHANGED <<nodes, nodeId, history, inflight, lastSave>>
     ELSE LET newNode == NewNode(blockId, nodeType, pos)
          IN /\ nodes' = Append(nodes, newNode)
             /\ nodeId' = nodeId + 1
             /\ history' = HistoryPush(history, Cmd("ADD_NODE", newNode))
             /\ inflight' = MarkEdited(inflight)
             /\ lastSave' = Dirty(lastSave)
  /\ UNCHANGED <<edges, savedAgent, copiedNodes, copiedEdges, initialPositionRef,
                 isDragging, clock, remoteCalls>>

\* setHardcodedValues (lines 400-406): the callback the node's form calls
setHardcodedValues(id, values) ==
  /\ ~isDragging
  /\ HasNode(nodes, id)
  /\ nodes' = SeqMap(LAMBDA node : IF node.id = id
                                   THEN [node EXCEPT !.hardcodedValues = values]
                                   ELSE node, nodes)
  /\ inflight' = MarkEdited(inflight)
  /\ lastSave' = Dirty(lastSave)
  /\ UNCHANGED <<edges, nodeId, savedAgent, copiedNodes, copiedEdges, initialPositionRef,
                 isDragging, history, clock, remoteCalls>>

(***************************************************************************)
(* history.undo / history.redo: a no-op at the boundary; otherwise the     *)
(* command's closure runs and the cursor moves.  st is [history, g].       *)
(***************************************************************************)
HistoryUndo(st) ==
  IF canUndo(st.history)
  THEN [history |-> [st.history EXCEPT !.cursor = @ - 1],
        g |-> ApplyUndo(st.history.log[st.history.cursor], st.g)]
  ELSE st

HistoryRedo(st) ==
  IF canRedo(st.history)
  THEN [history |-> [st.history EXCEPT !.cursor = @ + 1],
        g |-> ApplyRedo(st.history.log[st.history.cursor + 1], st.g)]
  ELSE st

Current == [history |-> history, g |-> [nodes |-> nodes, edges |-> edges]]

(***************************************************************************)
(* handleUndo / handleRedo (lines 424-430): Ctrl+Z / Ctrl+Y, the buttons   *)
(***************************************************************************)
handleUndo ==
  LET st == HistoryUndo(Current)
  IN /\ ~isDragging
     /\ nodes' = st.g.nodes
     /\ edges' = st.g.edges
     /\ history' = st.history
     /\ inflight' = IF st = Current THEN inflight ELSE MarkEdited(inflight)
     /\ lastSave' = IF st = Current THEN lastSave ELSE Dirty(lastSave)
     /\ UNCHANGED <<nodeId, savedAgent, copiedNodes, copiedEdges, initialPositionRef,
                    isDragging, clock, remoteCalls>>

handleRedo ==
  LET st == HistoryRedo(Current)
  IN /\ ~isDragging
     /\ nodes' = st.g.nodes
     /\ edges' = st.g.edges
     /\ history' = st.history
     /\ inflight' = IF st = Current THEN inflight ELSE MarkEdited(inflight)
     /\ lastSave' = IF st = Current THEN lastSave ELSE Dirty(lastSave)
     /\ UNCHANGED <<nodeId, savedAgent, copiedNodes, copiedEdges, initialPositionRef,
                    isDragging, clock, remoteCalls>>

(***************************************************************************)
(* getOutputType (lines 285-294).  Reading .type of a handle the schema    *)
(* does not declare throws a TypeError.                                    *)
(***************************************************************************)
OutputSchemaOf(node) == FindBlock(node.block_id).outputSchema

getOutputTypeThrows(nds, id, handleId) ==
  /\ HasNode(nds, id)
  /\ handleId \notin DOMAIN OutputSchemaOf(FindNode(nds, id)).properties

getOutputType(nds, id, handleId) ==
  IF ~HasNode(nds, id) THEN "unknown"
  ELSE OutputSchemaOf(FindNode(nds, id)).properties[handleId].type

(***************************************************************************)
(* onConnect (lines 303-357).  The setEdges updater pushes ADD_EDGE and    *)
(* calls updateNodesOnEdgeChange(newEdge, 'add'); the handler then queues  *)
(* its own setNodes appending the same connection.                         *)
(***************************************************************************)
EdgeId(source, sourceHandle, target, targetHandle) ==
  source \o "_" \o sourceHandle \o "_" \o target \o "_" \o targetHandle

NewEdge(source, sourceHandle, target, targetHandle) ==
  [id |-> EdgeId(source, sourceHandle, target, targetHandle),
   source |-> source, sourceHandle |-> sourceHandle,
   target |-> target, targetHandle |-> targetHandle,
   selected |-> FALSE]

\* lines 333-354: the handler's own setNodes
AppendConnection(nds, connection) ==
  SeqMap(LAMBDA node :
           IF node.id = connection.target \/ node.id = connection.source
           THEN [node EXCEPT !.connections = Append(node.connections, ConnOf(connection))]
           ELSE node,
         nds)

onConnect(source, sourceHandle, target, targetHandle) ==
  /\ ~isDragging
  /\ HasNode(nodes, source) /\ HasNode(nodes, target)
  /\ IF getOutputTypeThrows(nodes, source, sourceHandle)
     THEN UNCHANGED <<nodes, edges, history, inflight, lastSave>>
     ELSE LET newEdge == NewEdge(source, sourceHandle, target, targetHandle)
          IN /\ edges' = addEdge(newEdge, edges)
             /\ history' = HistoryPush(history, Cmd("ADD_EDGE", newEdge))
             /\ nodes' = AppendConnection(
                           updateNodesOnEdgeChange(nodes, newEdge, "add"), newEdge)
             /\ inflight' = MarkEdited(inflight)
             /\ lastSave' = Dirty(lastSave)
  /\ UNCHANGED <<nodeId, savedAgent, copiedNodes, copiedEdges, initialPositionRef,
                 isDragging, clock, remoteCalls>>

(***************************************************************************)
(* Selection: reactflow emits 'select' changes, which onNodesChange and    *)
(* onEdgesChange apply with applyNodeChanges / applyEdgeChanges (lines     *)
(* 194, 249).  A click selects one element and deselects the rest; a box   *)
(* selection selects the nodes and the edges connected to them.            *)
(***************************************************************************)
Select(nodeSel, edgeSel) ==
  /\ ~isDragging
  /\ nodes' = applySelectChanges(nodeSel, nodes)
  /\ edges' = applySelectChanges(edgeSel, edges)
  /\ inflight' = MarkTouched(inflight)
  /\ UNCHANGED <<nodeId, savedAgent, copiedNodes, copiedEdges, initialPositionRef,
                 isDragging, history, clock, remoteCalls, lastSave>>

clickNode(id) == HasNode(nodes, id) /\ Select({id}, {})
clickEdge(id) == (\E i \in 1..Len(edges) : edges[i].id = id) /\ Select({}, {id})
selectAll ==
  /\ nodes # <<>>
  /\ Select(NodeIds(nodes),
            {edges[i].id : i \in {j \in 1..Len(edges) :
                                    \/ edges[j].source \in NodeIds(nodes)
                                    \/ edges[j].target \in NodeIds(nodes)}})

(***************************************************************************)
(* Delete key: reactflow's deleteElements takes the selected nodes and     *)
(* edges plus the edges connected to the selected nodes, and calls         *)
(* onEdgesDelete, onEdgesChange (remove) and onNodesChange (remove), in    *)
(* this order, within one event.                                           *)
(***************************************************************************)
\* onEdgesDelete (lines 359-381): lines 372-373 compare each edge's handles
\* with themselves
onEdgesDelete(nds, edgesToDelete) ==
  SeqMap(LAMBDA node :
           [node EXCEPT !.connections =
              SelectSeq(node.connections,
                        LAMBDA conn :
                          ~Some(LAMBDA edge : /\ edge.source = conn.source
                                              /\ edge.target = conn.target
                                              /\ edge.sourceHandle = edge.sourceHandle
                                              /\ edge.targetHandle = edge.targetHandle,
                                edgesToDelete))],
         nds)

\* the ids of a sequence of elements, first occurrences in order
RECURSIVE DedupeIds(_, _)
DedupeIds(elems, seen) ==
  IF elems = <<>> THEN <<>>
  ELSE IF Head(elems).id \in seen THEN DedupeIds(Tail(elems), seen)
  ELSE <<Head(elems).id>> \o DedupeIds(Tail(elems), seen \cup {Head(elems).id})

\* onEdgesChange (lines 230-252), remove changes: what the forEach does to the
\* nodes, and the commands it pushes; removedEdge is found in the edges of the
\* render before the event
RECURSIVE EdgeRemovalNodes(_, _, _)
EdgeRemovalNodes(nds, ids, eds) ==
  IF ids = <<>> THEN nds
  ELSE EdgeRemovalNodes(
         IF Some(LAMBDA e : e.id = Head(ids), eds)
         THEN updateNodesOnEdgeChange(nds, Find(LAMBDA e : e.id = Head(ids), eds), "remove")
         ELSE nds,
         Tail(ids), eds)

EdgeRemovalCmds(ids, eds) ==
  SeqMap(LAMBDA id : Cmd("DELETE_EDGE", Find(LAMBDA e : e.id = id, eds)), ids)

\* onNodesChange (lines 157-169), remove changes: removedNode is found in the
\* nodes of the render before the event
NodeRemovalCmds(ids, nds) ==
  SeqMap(LAMBDA id : Cmd("DELETE_NODE", FindNode(nds, id)), ids)

deleteSelected ==
  LET nodesToRemove == SelectSeq(nodes, LAMBDA n : n.selected)
      removedNodeIds == NodeIds(nodesToRemove)
      edgesToRemove ==
        SelectSeq(edges, LAMBDA e : e.selected)
          \o SelectSeq(edges, LAMBDA e : e.source \in removedNodeIds
                                         \/ e.target \in removedNodeIds)
      edgeIds == DedupeIds(edgesToRemove, {})
      nodeIdsSeq == DedupeIds(nodesToRemove, {})
      cmds == EdgeRemovalCmds(edgeIds, edges) \o NodeRemovalCmds(nodeIdsSeq, nodes)
  IN /\ ~isDragging
     /\ cmds # <<>>
     /\ nodes' = applyRemoveChanges(
                   removedNodeIds,
                   EdgeRemovalNodes(onEdgesDelete(nodes, edgesToRemove), edgeIds, edges))
     /\ edges' = applyRemoveChanges(Range(edgeIds), edges)
     /\ history' = HistoryPushAll(history, cmds)
     /\ inflight' = MarkEdited(inflight)
     /\ lastSave' = Dirty(lastSave)
     /\ UNCHANGED <<nodeId, savedAgent, copiedNodes, copiedEdges, initialPositionRef,
                    isDragging, clock, remoteCalls>>

(***************************************************************************)
(* Dragging.  onNodeDragStart = onNodesChangeStart (lines 199-202); every  *)
(* frame of the drag reaches onNodesChange as a 'position' change (lines   *)
(* 170-194), which logs nothing while isDragging.current is set;           *)
(* onNodeDragStop = onNodesChangeEnd (lines 204-228).  The gesture is one  *)
(* mouse interaction: no other handler runs between its start and stop.    *)
(***************************************************************************)
\* a test that logs every move
distanceNonZero(oldPosition, newPosition) == oldPosition # newPosition

distanceExceeds(oldPosition, newPosition) ==
  (newPosition.x - oldPosition.x) * (newPosition.x - oldPosition.x)
    + (newPosition.y - oldPosition.y) * (newPosition.y - oldPosition.y)
  > MINIMUM_MOVE_BEFORE_LOG * MINIMUM_MOVE_BEFORE_LOG

RefSet(ref, id, pos) == [k \in DOMAIN ref \cup {id} |-> IF k = id THEN pos ELSE ref[k]]
RefDelete(ref, id) == [k \in DOMAIN ref \ {id} |-> ref[k]]

onNodesChangeStart(id) ==
  /\ ~isDragging
  /\ HasNode(nodes, id)
  /\ initialPositionRef' = RefSet(initialPositionRef, id, FindNode(nodes, id).position)
  /\ isDragging' = TRUE
  /\ UNCHANGED <<nodes, edges, nodeId, savedAgent, copiedNodes, copiedEdges, history,
                 inflight, clock, remoteCalls, lastSave>>

\* onNodesChange with one 'position' change while a drag is under way
onNodesChangeDragging(id, pos) ==
  /\ isDragging
  /\ id \in DOMAIN initialPositionRef
  /\ HasNode(nodes, id)
  /\ FindNode(nodes, id).position # pos
  /\ nodes' = applyPositionChange(id, pos, nodes)
  /\ inflight' = MarkEdited(inflight)
  /\ lastSave' = Dirty(lastSave)
  /\ UNCHANGED <<edges, nodeId, savedAgent, copiedNodes, copiedEdges, initialPositionRef,
                 isDragging, history, clock, remoteCalls>>

onNodesChangeEnd(id) ==
  /\ isDragging
  /\ id \in DOMAIN initialPositionRef
  /\ HasNode(nodes, id)
  /\ LET oldPosition == initialPositionRef[id]
         newPosition == FindNode(nodes, id).position
     IN history' =
          IF distanceExceeds(oldPosition, newPosition)
          THEN HistoryPush(history,
                           Cmd("UPDATE_NODE_POSITION",
                               [nodeId |-> id, oldPosition |-> oldPosition,
                                newPosition |-> newPosition]))
          ELSE history
  /\ isDragging' = FALSE
  /\ initialPositionRef' = RefDelete(initialPositionRef, id)
  /\ UNCHANGED <<nodes, edges, nodeId, savedAgent, copiedNodes, copiedEdges,
                 inflight, clock, remoteCalls, lastSave>>

(***************************************************************************)
(* loadGraph (lines 432-476), called when the graph of the flowID prop has *)
(* been fetched (lines 123-128).  It reads availableNodes and, through     *)
(* getOutputType, the nodes of the render in which the fetch was started;  *)
(* it does not touch the history or the id counter.  A block missing from  *)
(* the catalog (line 438) or a throwing getOutputType (line 467) ends the  *)
(* function with the state updates queued so far.                          *)
(***************************************************************************)
\* lines 439-459: newNode
LoadedNode(node) ==
  LET block == FindBlock(node.block_id)
  IN [id |-> node.id,
      position |-> Pos(node.metadata.position.x, node.metadata.position.y),
      selected |-> FALSE,
      blockType |-> block.name,
      title |-> block.name \o " " \o node.id,
      hardcodedValues |-> node.input_default,
      connections |-> <<>>,
      isOutputOpen |-> FALSE,
      status |-> Undefined,
      output_data |-> Undefined,
      block_id |-> block.id,
      backend_id |-> Undefined]

\* lines 463-475: the edge of a link
LoadedEdge(link) ==
  [id |-> EdgeId(link.source_id, link.source_name, link.sink_id, link.sink_name),
   source |-> link.source_id, sourceHandle |-> link.source_name,
   target |-> link.sink_id, targetHandle |-> link.sink_name,
   selected |-> FALSE]

loadGraph(graph) ==
  /\ ~isDragging
  /\ savedAgent' = graph
  /\ IF \E i \in 1..Len(graph.nodes) : ~HasBlock(graph.nodes[i].block_id)
     THEN UNCHANGED <<nodes, edges>>
     ELSE /\ nodes' = SeqMap(LoadedNode, graph.nodes)
          /\ IF \E i \in 1..Len(graph.links) :
                  getOutputTypeThrows(nodes, graph.links[i].source_id, graph.links[i].source_name)
             THEN UNCHANGED edges
             ELSE edges' = SeqMap(LoadedEdge, graph.links)
  /\ inflight' = MarkEdited(inflight)
  /\ lastSave' = Dirty(lastSave)
  /\ UNCHANGED <<nodeId, copiedNodes, copiedEdges, initialPositionRef, isDragging,
                 history, clock, remoteCalls>>

(***************************************************************************)
(* prepareNodeInputData / getNestedData (lines 478-514).  A value map is a *)
(* function from field names to values; values[key] !== undefined is       *)
(* key \in DOMAIN values.                                                  *)
(***************************************************************************)
RECURSIVE getNestedData(_, _)
getNestedData(schema, values) ==
  LET props == IF "properties" \in DOMAIN schema THEN schema.properties ELSE <<>>
      keys == {key \in DOMAIN props : key \in DOMAIN values}
      declared == [key \in keys |->
                     IF props[key].type = "object"
                     THEN getNestedData(props[key], values[key])
                     ELSE values[key]]
  IN IF "additionalProperties" \in DOMAIN schema /\ schema.additionalProperties
     THEN [key \in keys \cup DOMAIN values |->
             IF key \in DOMAIN values THEN values[key] ELSE declared[key]]
     ELSE declared

prepareNodeInputData(node) ==
  IF ~HasBlock(node.block_id) THEN <<>>
  ELSE getNestedData(FindBlock(node.block_id).inputSchema, node.hardcodedValues)

(***************************************************************************)
(* saveAgent (lines 516-613).  The function reads nodes, edges and         *)
(* savedAgent of the render in which it was called, before and after its   *)
(* awaits.  saveAgent(asTemplate) is the call up to the 100 ms timer of    *)
(* line 526, saveDispatch its continuation up to the remote request, and   *)
(* saveResolved / saveFailed its continuation when the request returns.    *)
(* The agent name and description inputs are left empty.                   *)
(***************************************************************************)
\* a reset that also drops the output
clearStatusAndOutput(nds) ==
  SeqMap(LAMBDA node : [node EXCEPT !.status = Undefined, !.output_data = Undefined], nds)

\* lines 517-525
clearStatus(nds) == SeqMap(LAMBDA node : [node EXCEPT !.status = Undefined], nds)

\* lines 532, 594: `${block_id}_${x}_${y}`
NodeKey(block_id, position) ==
  block_id \o "_" \o ToString(position.x) \o "_" \o ToString(position.y)

\* a map whose every key points at the last node
blockIdToNodeIdMapLastNode(nds) ==
  [key \in {NodeKey(nds[i].block_id, nds[i].position) : i \in 1..Len(nds)} |-> nds[Len(nds)].id]

\* lines 528-534: the last node with a key owns it
blockIdToNodeIdMap(nds) ==
  [key \in {NodeKey(nds[i].block_id, nds[i].position) : i \in 1..Len(nds)} |->
     nds[CHOOSE i \in 1..Len(nds) :
           /\ NodeKey(nds[i].block_id, nds[i].position) = key
           /\ \A j \in (i+1)..Len(nds) : NodeKey(nds[j].block_id, nds[j].position) # key].id]

\* lines 530-558
formattedNodes(nds, eds) ==
  SeqMap(LAMBDA node :
           [id |-> node.id,
            block_id |-> node.block_id,
            input_default |-> prepareNodeInputData(node),
            input_nodes |->
              SeqMap(LAMBDA edge : [name |-> edge.targetHandle, node_id |-> edge.source],
                     SelectSeq(eds, LAMBDA edge : edge.target = node.id)),
            output_nodes |->
              SeqMap(LAMBDA edge : [name |-> edge.sourceHandle, node_id |-> edge.target],
                     SelectSeq(eds, LAMBDA edge : edge.source = node.id)),
            metadata |-> [position |-> node.position]],
         nds)

\* lines 560-565
formattedLinks(eds) ==
  SeqMap(LAMBDA edge : [source_id |-> edge.source, sink_id |-> edge.target,
                        source_name |-> edge.sourceHandle, sink_name |-> edge.targetHandle],
         eds)

\* lines 567-573
Payload(nds, eds, agent) ==
  [id |-> agent.id,
   name |-> "Agent Name",
   description |-> "Agent Description",
   nodes |-> formattedNodes(nds, eds),
   links |-> formattedLinks(eds)]

\* deepEquals (@/lib/utils): deep structural equality
deepEquals(x, y) == x = y

\* The remote service.  Create assigns the graph and node identifiers; update
\* keeps the graph identifier and the template flag.  The persisted graph
\* carries the "is a template" flag.
ServiceNodeId(i) == "s" \o ToString(i)

ServiceGraph(payload, agent, asTemplate) ==
  LET newId == [i \in 1..Len(payload.nodes) |-> ServiceNodeId(i)]
      Renamed(id) ==
        IF \E i \in 1..Len(payload.nodes) : payload.nodes[i].id = id
        THEN newId[CHOOSE i \in 1..Len(payload.nodes) : payload.nodes[i].id = id]
        ELSE id
  IN [id |-> IF agent = NoAgent THEN "g1" ELSE agent.id,
      name |-> payload.name,
      description |-> payload.description,
      is_template |-> IF agent = NoAgent THEN asTemplate ELSE agent.is_template,
      nodes |-> [i \in 1..Len(payload.nodes) |->
                   [payload.nodes[i] EXCEPT
                      !.id = newId[i],
                      !.input_nodes = SeqMap(LAMBDA l : [l EXCEPT !.node_id = Renamed(@)], @),
                      !.output_nodes = SeqMap(LAMBDA l : [l EXCEPT !.node_id = Renamed(@)], @)]],
      links |-> SeqMap(LAMBDA l : [l EXCEPT !.source_id = Renamed(@), !.sink_id = Renamed(@)],
                       payload.links)]

\* lines 592-608
updatedNodes(backendNodes, nds, map) ==
  LET Front(backendNode) ==
        LET key == NodeKey(backendNode.block_id, backendNode.metadata.position)
        IN IF key \in DOMAIN map /\ HasNode(nds, map[key])
           THEN <<[FindNode(nds, map[key]) EXCEPT
                     !.position = backendNode.metadata.position,
                     !.backend_id = backendNode.id]>>
           ELSE <<>>
      RECURSIVE Collect(_)
      Collect(bs) == IF bs = <<>> THEN <<>> ELSE Front(Head(bs)) \o Collect(Tail(bs))
  IN Collect(backendNodes)

\* lines 582-588: the request saveAgent awaits
dispatch(agent, asTemplate) ==
  IF agent # NoAgent
  THEN IF agent.is_template THEN "updateTemplate" ELSE "updateGraph"
  ELSE IF asTemplate THEN "createTemplate" ELSE "createGraph"

RemoveAt(seq, i) == SubSeq(seq, 1, i - 1) \o SubSeq(seq, i + 1, Len(seq))

\* lines 516-526: the call; what the continuations will read is kept in the
\* record of the call (payload and api are functions of it)
saveAgent(asTemplate) ==
  /\ ~isDragging
  /\ nodes' = clearStatus(nodes)
  /\ inflight' = Append(MarkTouched(inflight),
                        [phase |-> "timer",
                         nodes |-> nodes, edges |-> edges, savedAgent |-> savedAgent,
                         asTemplate |-> asTemplate,
                         payload |-> Payload(nodes, edges, savedAgent),
                         api |-> dispatch(savedAgent, asTemplate),
                         clean |-> lastSave.clean /\ inflight = <<>>,
                         edited |-> FALSE, touched |-> FALSE])
  /\ UNCHANGED <<edges, nodeId, savedAgent, copiedNodes, copiedEdges, initialPositionRef,
                 isDragging, history, clock, remoteCalls, lastSave>>

\* lines 527-588: after the timer, the skip test and the request
saveDispatch(i) ==
  LET call == inflight[i]
  IN /\ ~isDragging
     /\ call.phase = "timer"
     /\ IF call.savedAgent # NoAgent /\ deepEquals(call.payload, call.savedAgent)
        THEN /\ inflight' = RemoveAt(inflight, i)
             /\ lastSave' = [lastSave EXCEPT !.ret = Undefined]
             /\ UNCHANGED remoteCalls
        ELSE /\ inflight' = [inflight EXCEPT ![i].phase = "request"]
             /\ remoteCalls' = remoteCalls + 1
             /\ UNCHANGED lastSave
     /\ UNCHANGED <<nodes, edges, nodeId, savedAgent, copiedNodes, copiedEdges,
                    initialPositionRef, isDragging, history, clock>>

\* lines 589-612: the request returned a graph
saveResolved(i) ==
  LET call == inflight[i]
      newSavedAgent == ServiceGraph(call.payload, call.savedAgent, call.asTemplate)
  IN /\ ~isDragging
     /\ call.phase = "request"
     /\ savedAgent' = newSavedAgent
     /\ nodes' = updatedNodes(newSavedAgent.nodes, call.nodes, blockIdToNodeIdMap(call.nodes))
     /\ inflight' = MarkTouched(RemoveAt(inflight, i))
     /\ lastSave' = [clean |-> ~call.edited, ret |-> newSavedAgent.id]
     /\ UNCHANGED <<edges, nodeId, copiedNodes, copiedEdges, initialPositionRef,
                    isDragging, history, clock, remoteCalls>>

\* the request failed: the await of lines 582-588 throws
saveFailed(i) ==
  /\ ~isDragging
  /\ inflight[i].phase = "request"
  /\ inflight' = RemoveAt(inflight, i)
  /\ lastSave' = [lastSave EXCEPT !.ret = "error"]
  /\ UNCHANGED <<nodes, edges, nodeId, savedAgent, copiedNodes, copiedEdges,
                 initialPositionRef, isDragging, history, clock, remoteCalls>>

(***************************************************************************)
(* updateNodesWithExecutionData (lines 631-649), called with one event by  *)
(* the websocket handler (lines 103-105).                                  *)
(***************************************************************************)
\* a merge that flips the output panel instead of opening it
mergeExecutionDataTogglingPanel(nds, executionData) ==
  SeqMap(LAMBDA node :
           IF Some(LAMBDA exec : exec.node_id = node.backend_id, executionData)
           THEN LET nodeExecution ==
                      Find(LAMBDA exec : exec.node_id = node.backend_id, executionData)
                IN [node EXCEPT !.status = nodeExecution.status,
                                !.output_data = nodeExecution.output_data,
                                !.isOutputOpen = ~node.isOutputOpen]
           ELSE node,
         nds)

\* lines 632-648: the updater passed to setNodes
mergeExecutionData(nds, executionData) ==
  SeqMap(LAMBDA node :
           IF Some(LAMBDA exec : exec.node_id = node.backend_id, executionData)
           THEN LET nodeExecution ==
                      Find(LAMBDA exec : exec.node_id = node.backend_id, executionData)
                IN [node EXCEPT !.status = nodeExecution.status,
                                !.output_data = nodeExecution.output_data,
                                !.isOutputOpen = TRUE]
           ELSE node,
         nds)

updateNodesWithExecutionData(executionData) ==
  /\ ~isDragging
  /\ nodes' = mergeExecutionData(nodes, executionData)
  /\ inflight' = MarkTouched(inflight)
  /\ UNCHANGED <<edges, nodeId, savedAgent, copiedNodes, copiedEdges, initialPositionRef,
                 isDragging, history, clock, remoteCalls, lastSave>>

(***************************************************************************)
(* handleKeyDown (lines 653-706): Ctrl+C copies the selected nodes and     *)
(* edges; Ctrl+V pastes the copied ones.  The listener is re-registered    *)
(* after every render (lines 708-713), so the handler reads the current    *)
(* nodes, edges, copiedNodes, copiedEdges and nodeId.  now is the value    *)
(* Date.now() returns.                                                     *)
(***************************************************************************)
copy ==
  /\ ~isDragging
  /\ copiedNodes' = SelectSeq(nodes, LAMBDA node : node.selected)
  /\ copiedEdges' = SelectSeq(edges, LAMBDA edge : edge.selected)
  /\ UNCHANGED <<nodes, edges, nodeId, savedAgent, initialPositionRef, isDragging,
                 history, inflight, clock, remoteCalls, lastSave>>

\* pasted nodes that keep the position of their source
pastedNodesInPlace(copied, firstId) ==
  [index \in 1..Len(copied) |->
     [copied[index] EXCEPT !.id = ToString(firstId + index - 1),
                           !.status = Undefined,
                           !.output_data = Undefined]]

\* lines 665-687: newNodes
pastedNodes(copied, firstId) ==
  [index \in 1..Len(copied) |->
     [copied[index] EXCEPT !.id = ToString(firstId + index - 1),
                           !.position = Pos(@.x + 20, @.y + 20),
                           !.status = Undefined,
                           !.output_data = Undefined]]

\* lines 692-701: newEdges
pastedEdges(copied, newNodes, now) ==
  SeqMap(LAMBDA edge :
           LET newSourceId ==
                 IF Some(LAMBDA n : n.title = edge.source, newNodes)
                 THEN Find(LAMBDA n : n.title = edge.source, newNodes).id
                 ELSE edge.source
               newTargetId ==
                 IF Some(LAMBDA n : n.title = edge.target, newNodes)
                 THEN Find(LAMBDA n : n.title = edge.target, newNodes).id
                 ELSE edge.target
           IN [edge EXCEPT
                 !.id = EdgeId(newSourceId, edge.sourceHandle, newTargetId, edge.targetHandle)
                          \o "_" \o ToString(now),
                 !.source = newSourceId,
                 !.target = newTargetId],
         copied)

\* a paste that logs every pasted node as an ADD_NODE command
pasteLogged(now) ==
  /\ ~isDragging
  /\ now >= clock
  /\ clock' = now
  /\ IF copiedNodes = <<>>
     THEN UNCHANGED <<nodes, edges, nodeId, inflight, lastSave, history>>
     ELSE LET newNodes == pastedNodes(copiedNodes, nodeId)
          IN /\ nodes' = SeqMap(LAMBDA node : [node EXCEPT !.selected = FALSE], nodes)
                           \o newNodes
             /\ nodeId' = nodeId + Len(copiedNodes)
             /\ edges' = edges \o pastedEdges(copiedEdges, newNodes, now)
             /\ history' = HistoryPushAll(history,
                                          SeqMap(LAMBDA node : Cmd("ADD_NODE", node), newNodes))
             /\ inflight' = MarkEdited(inflight)
             /\ lastSave' = Dirty(lastSave)
  /\ UNCHANGED <<savedAgent, copiedNodes, copiedEdges, initialPositionRef, isDragging,
                 remoteCalls>>

paste(now) ==
  /\ ~isDragging
  /\ now >= clock
  /\ clock' = now
  /\ IF copiedNodes = <<>>
     THEN UNCHANGED <<nodes, edges, nodeId, inflight, lastSave>>
     ELSE LET newNodes == pastedNodes(copiedNodes, nodeId)
          IN /\ nodes' = SeqMap(LAMBDA node : [node EXCEPT !.selected = FALSE], nodes)
                           \o newNodes
             /\ nodeId' = nodeId + Len(copiedNodes)
             /\ edges' = edges \o pastedEdges(copiedEdges, newNodes, now)
             /\ inflight' = MarkEdited(inflight)
             /\ lastSave' = Dirty(lastSave)
  /\ UNCHANGED <<savedAgent, copiedNodes, copiedEdges, initialPositionRef, isDragging,
                 history, remoteCalls>>

(***************************************************************************)
(* The state after construction (lines 83-97); the history singleton is    *)
(* created empty when the module is first imported.                        *)
(***************************************************************************)
Init ==
  /\ nodes = <<>>
  /\ edges = <<>>
  /\ nodeId = 1
  /\ savedAgent = NoAgent
  /\ copiedNodes = <<>>
  /\ copiedEdges = <<>>
  /\ initialPositionRef = <<>>
  /\ isDragging = FALSE
  /\ history = [log |-> <<>>, cursor |-> 0]
  /\ inflight = <<>>
  /\ clock = 0
  /\ remoteCalls = 0
  /\ lastSave = [clean |-> FALSE, ret |-> Undefined]

(***************************************************************************)
(* Inputs.                                                                 *)
(***************************************************************************)
\* Math.random() * 400 (line 393), and the places a drag can take a node to
Positions == {Pos(0, 0), Pos(30, 0), Pos(100, 0)}
\* positions more than the logging threshold apart
FarPositions == {Pos(0, 0), Pos(100, 0)}
SourceHandles == {"out1", "out2"}
TargetHandles == {"in1"}

\* the caps a specification puts on the state
Caps(maxNodes, maxLog, maxEdges, maxConns) ==
  /\ nodeId <= maxNodes + 1
  /\ Len(nodes) <= maxNodes
  /\ Len(history.log) <= maxLog
  /\ Len(edges) <= maxEdges
  /\ \A i \in 1..Len(nodes) : Len(nodes[i].connections) <= maxConns

(***************************************************************************)
(* Editing with undo and redo.  The user connects two different nodes      *)
(* through ports not yet connected.                                        *)
(***************************************************************************)
CappedEdit(A) == A /\ Caps(MaxNodesEdit, MaxLogEdit, MaxEdgesEdit, MaxConnsEdit)'

NextEdit ==
  \/ CappedEdit(\E pos \in {Pos(0, 0)} : addNode("bA", "A", pos))
  \/ CappedEdit(\E s \in NodeIds(nodes), sh \in SourceHandles, th \in TargetHandles :
                  \E t \in NodeIds(nodes) \ {s} :
                    /\ ~connectionExists(NewEdge(s, sh, t, th), edges)
                    /\ onConnect(s, sh, t, th))
  \/ CappedEdit(\E id \in NodeIds(nodes) : clickNode(id))
  \/ CappedEdit(\E i \in 1..Len(edges) : clickEdge(edges[i].id))
  \/ CappedEdit(deleteSelected)
  \/ CappedEdit(\E id \in NodeIds(nodes) : onNodesChangeStart(id))
  \/ CappedEdit(\E id \in NodeIds(nodes), pos \in FarPositions : onNodesChangeDragging(id, pos))
  \/ CappedEdit(\E id \in NodeIds(nodes) : onNodesChangeEnd(id))
  \/ CappedEdit(handleUndo)
  \/ CappedEdit(handleRedo)

SpecEdit == Init /\ [][NextEdit]_vars

(***************************************************************************)
(* The command history alone: nodes are added, dragged and deleted, and    *)
(* the commands undone and redone.                                         *)
(***************************************************************************)
CappedHistory(A) == A /\ Caps(MaxNodesHist, MaxLogHist, 0, 0)'

NextHistory ==
  \/ CappedHistory(\E pos \in {Pos(0, 0)} : addNode("bA", "A", pos))
  \/ CappedHistory(\E id \in NodeIds(nodes) : clickNode(id))
  \/ CappedHistory(deleteSelected)
  \/ CappedHistory(\E id \in NodeIds(nodes) : onNodesChangeStart(id))
  \/ CappedHistory(\E id \in NodeIds(nodes), pos \in Positions : onNodesChangeDragging(id, pos))
  \/ CappedHistory(\E id \in NodeIds(nodes) : onNodesChangeEnd(id))
  \/ CappedHistory(handleUndo)
  \/ CappedHistory(handleRedo)

SpecHistory == Init /\ [][NextHistory]_vars

(***************************************************************************)
(* Saving while editing: nodes are added, moved and deleted, saves are     *)
(* issued and return or fail, and execution events arrive.                 *)
(***************************************************************************)
CappedSave(A) ==
  /\ A
  /\ Caps(MaxNodesSave, MaxLogSave, 0, 0)'
  /\ Len(inflight') <= MaxInflight
  /\ remoteCalls' <= MaxCalls

NextSave ==
  \/ CappedSave(\E pos \in {Pos(0, 0), Pos(30, 0)} : addNode("bA", "A", pos))
  \/ CappedSave(\E id \in NodeIds(nodes) : clickNode(id))
  \/ CappedSave(deleteSelected)
  \/ CappedSave(\E asTemplate \in BOOLEAN : saveAgent(asTemplate))
  \/ CappedSave(\E i \in 1..Len(inflight) : saveDispatch(i))
  \/ CappedSave(\E i \in 1..Len(inflight) : saveResolved(i))
  \/ CappedSave(\E i \in 1..Len(inflight) : saveFailed(i))
  \/ CappedSave(\E id \in {ServiceNodeId(1)} :
                  updateNodesWithExecutionData(
                    <<[node_id |-> id, status |-> "COMPLETED", output_data |-> "out"]>>))

SpecSave == Init /\ [][NextSave]_vars

(***************************************************************************)
(* The save cycle alone: nodes are added, saves are issued one after the   *)
(* other and return or fail, and execution events arrive.                  *)
(***************************************************************************)
CappedSync(A) ==
  /\ A
  /\ Caps(MaxNodesSync, MaxNodesSync, 0, 0)'
  /\ remoteCalls' <= MaxCallsSync

NextSync ==
  \/ CappedSync(\E pos \in {Pos(0, 0), Pos(30, 0)} : addNode("bA", "A", pos))
  \/ CappedSync(\E asTemplate \in BOOLEAN : inflight = <<>> /\ saveAgent(asTemplate))
  \/ CappedSync(\E i \in 1..Len(inflight) : saveDispatch(i))
  \/ CappedSync(\E i \in 1..Len(inflight) : saveResolved(i))
  \/ CappedSync(\E i \in 1..Len(inflight) : saveFailed(i))
  \/ CappedSync(\E id \in {ServiceNodeId(1)} :
                  updateNodesWithExecutionData(
                    <<[node_id |-> id, status |-> "COMPLETED", output_data |-> "out"]>>))

SpecSync == Init /\ [][NextSync]_vars

(***************************************************************************)
(* Copy and paste of nodes: nodes are added, selected, copied and pasted;   *)
(* the graph is saved once and execution events arrive.                    *)
(***************************************************************************)
CappedPaste(A) ==
  /\ A
  /\ Len(nodes') <= MaxNodesPaste
  /\ Len(history'.log) <= MaxAddedPaste

NextPaste ==
  \/ CappedPaste(\E pos \in {Pos(30 * (nodeId - 1), 0)} : addNode("bA", "A", pos))
  \/ CappedPaste(selectAll)
  \/ CappedPaste(copy)
  \/ CappedPaste(\E now \in {clock} : paste(now))
  \/ CappedPaste(savedAgent = NoAgent /\ inflight = <<>> /\ saveAgent(FALSE))
  \/ CappedPaste(\E i \in 1..Len(inflight) : saveDispatch(i))
  \/ CappedPaste(\E i \in 1..Len(inflight) : saveResolved(i))
  \/ CappedPaste(\E id \in {ServiceNodeId(1)} :
                   updateNodesWithExecutionData(
                     <<[node_id |-> id, status |-> "COMPLETED", output_data |-> "out"]>>))

SpecPaste == Init /\ [][NextPaste]_vars

(***************************************************************************)
(* Copy and paste of nodes with their edges.                               *)
(***************************************************************************)
CappedClipboard(A) ==
  /\ A
  /\ Len(nodes') <= MaxNodesClip
  /\ nodeId' <= MaxNodesClip + 1
  /\ Len(history'.log) <= MaxLogClip
  /\ Len(edges') <= MaxEdgesClip
  /\ clock' <= MaxClock

NextClipboard ==
  \/ CappedClipboard(\E pos \in {Pos(0, 0)} : addNode("bA", "A", pos))
  \/ CappedClipboard(\E s \in NodeIds(nodes), sh \in {"out1"}, th \in TargetHandles :
                       \E t \in NodeIds(nodes) \ {s} :
                         /\ ~connectionExists(NewEdge(s, sh, t, th), edges)
                         /\ onConnect(s, sh, t, th))
  \/ CappedClipboard(selectAll)
  \/ CappedClipboard(copy)
  \/ CappedClipboard(\E now \in clock..(clock + 1) : paste(now))

SpecClipboard == Init /\ [][NextClipboard]_vars

(***************************************************************************)
(* Connecting and deleting edges: two nodes are connected through several  *)
(* ports, also from a handle the output schema does not declare, and edges *)
(* are selected and deleted.                                               *)
(***************************************************************************)
\* connection.sourceHandle: two declared handles and an undeclared one
ConnectHandles == {"out1", "out2", "out3"}

CappedConnect(A) ==
  A /\ Caps(MaxNodesConnect, MaxLogConnect, MaxEdgesConnect, MaxConnsConnect)'

NextConnect ==
  \/ CappedConnect(\E pos \in {Pos(0, 0)} : addNode("bA", "A", pos))
  \/ CappedConnect(\E s \in NodeIds(nodes), sh \in ConnectHandles, th \in TargetHandles :
                     \E t \in NodeIds(nodes) \ {s} :
                       /\ ~connectionExists(NewEdge(s, sh, t, th), edges)
                       /\ onConnect(s, sh, t, th))
  \/ CappedConnect(\E i \in 1..Len(edges) : clickEdge(edges[i].id))
  \/ CappedConnect(deleteSelected)

SpecConnect == Init /\ [][NextConnect]_vars

(***************************************************************************)
(* Copy and paste with undo and redo: nodes are added and connected,       *)
(* selected, copied and pasted, and the commands are undone and redone.    *)
(***************************************************************************)
CappedCopy(A) ==
  A /\ Caps(MaxNodesCopy, MaxLogCopy, MaxEdgesCopy, 2 * MaxEdgesCopy)'

NextCopy ==
  \/ CappedCopy(\E pos \in {Pos(0, 0)} : addNode("bA", "A", pos))
  \/ CappedCopy(\E s \in NodeIds(nodes), sh \in {"out1"}, th \in TargetHandles :
                  \E t \in NodeIds(nodes) \ {s} :
                    /\ ~connectionExists(NewEdge(s, sh, t, th), edges)
                    /\ onConnect(s, sh, t, th))
  \/ CappedCopy(selectAll)
  \/ CappedCopy(copiedNodes = <<>> /\ copy)
  \/ CappedCopy(\E now \in {clock} : paste(now))
  \/ CappedCopy(handleUndo)
  \/ CappedCopy(handleRedo)

SpecCopy == Init /\ [][NextCopy]_vars

(***************************************************************************)
(* Removing connected nodes with undo and redo: nodes are added and        *)
(* connected, a node is selected and deleted together with its edges, and  *)
(* the commands are undone and redone.                                     *)
(***************************************************************************)
CappedRemove(A) ==
  A /\ Caps(MaxNodesRemove, MaxLogRemove, MaxEdgesRemove, MaxConnsRemove)'

NextRemove ==
  \/ CappedRemove(\E pos \in {Pos(0, 0)} : addNode("bA", "A", pos))
  \/ CappedRemove(\E s \in NodeIds(nodes), sh \in {"out1"}, th \in TargetHandles :
                    \E t \in NodeIds(nodes) \ {s} :
                      /\ ~connectionExists(NewEdge(s, sh, t, th), edges)
                      /\ onConnect(s, sh, t, th))
  \/ CappedRemove(\E id \in NodeIds(nodes) : clickNode(id))
  \/ CappedRemove(\E i \in 1..Len(edges) : clickEdge(edges[i].id))
  \/ CappedRemove(deleteSelected)
  \/ CappedRemove(handleUndo)
  \/ CappedRemove(handleRedo)

SpecRemove == Init /\ [][NextRemove]_vars

(***************************************************************************)
(* Overlapping saves: a save is called while another is under way.         *)
(***************************************************************************)
CappedRace(A) ==
  /\ A
  /\ Caps(MaxNodesRace, MaxNodesRace, 0, 0)'
  /\ Len(inflight') <= MaxInflightRace
  /\ remoteCalls' <= MaxCallsRace

NextRace ==
  \/ CappedRace(\E pos \in {Pos(0, 0)} : addNode("bA", "A", pos))
  \/ CappedRace(\E asTemplate \in BOOLEAN : saveAgent(asTemplate))
  \/ CappedRace(\E i \in 1..Len(inflight) : saveDispatch(i))
  \/ CappedRace(\E i \in 1..Len(inflight) : saveResolved(i))

SpecRace == Init /\ [][NextRace]_vars

(***************************************************************************)
(* Composing the input payload: a node of any block is added, its form     *)
(* fills in values, and the graph is saved.                                *)
(***************************************************************************)
\* the value maps a form hands to setHardcodedValues
ValueMaps ==
  {in1 @@ cfg @@ z :
     in1 \in {<<>>, [in1 |-> "x"]},
     cfg \in {<<>>, [cfg |-> [k |-> "v"]], [cfg |-> [k |-> "v", u |-> "w"]]},
     z \in {<<>>, [z |-> "9"]}}

CappedCompose(A) ==
  /\ A
  /\ Caps(MaxNodesCompose, MaxNodesCompose, 0, 0)'
  /\ Len(inflight') <= MaxInflight
  /\ remoteCalls' <= MaxCallsCompose

NextCompose ==
  \/ CappedCompose(\E b \in 1..Len(availableNodes) :
                     addNode(availableNodes[b].id, availableNodes[b].name, Pos(0, 0)))
  \/ CappedCompose(\E id \in NodeIds(nodes), values \in ValueMaps :
                     setHardcodedValues(id, values))
  \/ CappedCompose(saveAgent(FALSE))
  \/ CappedCompose(\E i \in 1..Len(inflight) : saveDispatch(i))
  \/ CappedCompose(\E i \in 1..Len(inflight) : saveResolved(i))

SpecCompose == Init /\ [][NextCompose]_vars

(***************************************************************************)
(* Loading: nodes are added and the additions undone and redone, a         *)
(* persisted graph is loaded, saved again, and execution events arrive.    *)
(***************************************************************************)
\* a node of a persisted graph (spec section 6)
PersistedNode(id, block_id, position, input_nodes, output_nodes) ==
  [id |-> id, block_id |-> block_id, input_default |-> <<>>,
   input_nodes |-> input_nodes, output_nodes |-> output_nodes,
   metadata |-> [position |-> position]]

\* the graphs the service holds: a single node; two nodes and a link
LoadableGraphs ==
  { [id |-> "g1", name |-> "Agent Name", description |-> "Agent Description",
     is_template |-> FALSE,
     nodes |-> <<PersistedNode("s1", "bA", Pos(0, 0), <<>>, <<>>)>>,
     links |-> <<>>],
    [id |-> "g2", name |-> "Agent Name", description |-> "Agent Description",
     is_template |-> FALSE,
     nodes |-> <<PersistedNode("s1", "bA", Pos(0, 0), <<>>,
                               <<[name |-> "out1", node_id |-> "s2"]>>),
                 PersistedNode("s2", "bA", Pos(30, 0),
                               <<[name |-> "in1", node_id |-> "s1"]>>, <<>>)>>,
     links |-> <<[source_id |-> "s1", sink_id |-> "s2",
                  source_name |-> "out1", sink_name |-> "in1"]>>] }

\* the execution events the service sends
ExecutionEvents ==
  {[node_id |-> id, status |-> status,
    output_data |-> IF status = "COMPLETED" THEN "out" ELSE "none"] :
     id \in {ServiceNodeId(1), ServiceNodeId(2)}, status \in {"RUNNING", "COMPLETED"}}

CappedLoad(A) ==
  /\ A
  /\ nodeId' <= MaxNodesLoad + 1
  /\ Len(inflight') <= MaxInflight
  /\ remoteCalls' <= MaxCallsLoad

NextLoad ==
  \/ CappedLoad(\E pos \in {Pos(0, 0)} : addNode("bA", "A", pos))
  \/ CappedLoad(\E graph \in LoadableGraphs : loadGraph(graph))
  \/ CappedLoad(handleUndo)
  \/ CappedLoad(handleRedo)
  \/ CappedLoad(saveAgent(FALSE))
  \/ CappedLoad(\E i \in 1..Len(inflight) : saveDispatch(i))
  \/ CappedLoad(\E i \in 1..Len(inflight) : saveResolved(i))
  \/ CappedLoad(\E e \in ExecutionEvents : updateNodesWithExecutionData(<<e>>))

SpecLoad == Init /\ [][NextLoad]_vars

(***************************************************************************)
(* Properties.                                                             *)
(***************************************************************************)
\* what the claims compare of a graph: the node set with positions, the edge set
GraphView(g) ==
  [nodes |-> {[id |-> g.nodes[i].id, position |-> g.nodes[i].position] : i \in 1..Len(g.nodes)},
   edges |-> {[id |-> g.edges[i].id, conn |-> ConnOf(g.edges[i])] : i \in 1..Len(g.edges)}]

Matching(node, edge) == SelectSeq(node.connections, LAMBDA conn : SameConn(conn, edge))

\* C1: in every reachable state in which undo is possible, undo() followed by
\* redo() gives back the node set, the edge set and the node positions that
\* held before the undo.
C1_UndoRedoRestores ==
  canUndo(history) /\ ~isDragging =>
    GraphView(HistoryRedo(HistoryUndo(Current)).g) = GraphView(Current.g)

\* C2: every edge is in the connection lists of exactly its source and its
\* target node, and every connection-list entry has an edge in the edge set.
C2_ConnectionCache ==
  /\ \A i \in 1..Len(edges), j \in 1..Len(nodes) :
       (Matching(nodes[j], edges[i]) # <<>>)
         <=> (nodes[j].id \in {edges[i].source, edges[i].target})
  /\ \A j \in 1..Len(nodes) :
       \A k \in 1..Len(nodes[j].connections) :
         \E i \in 1..Len(edges) : SameConn(nodes[j].connections[k], edges[i])

\* a step of onConnect that adds an edge
ConnectAdds(edge) ==
  /\ onConnect(edge.source, edge.sourceHandle, edge.target, edge.targetHandle)
  /\ edges' = Append(edges, edge)

AllEdges ==
  {NewEdge(s, sh, t, th) : s \in NodeIds(nodes), sh \in SourceHandles,
                           t \in NodeIds(nodes), th \in TargetHandles}

\* C3: after onConnect adds an edge, its source node and its target node each
\* hold exactly one matching connection entry; after the edge is deleted, no
\* node holds a matching entry.
C3_OneEntryPerEndpoint ==
  [][/\ \A edge \in AllEdges :
          ConnectAdds(edge) =>
            \A j \in 1..Len(nodes') :
              nodes'[j].id \in {edge.source, edge.target}
                => Len(Matching(nodes'[j], edge)) = 1
     /\ deleteSelected =>
          \A i \in 1..Len(edges) :
            (\A k \in 1..Len(edges') : edges'[k].id # edges[i].id)
              => \A j \in 1..Len(nodes') : Matching(nodes'[j], edges[i]) = <<>>
    ]_vars

\* a step of a handler that pushes a command
PushStep ==
  /\ \/ \E b \in {"bA", "bB"}, t \in {"A", "B"}, pos \in Positions : addNode(b, t, pos)
     \/ \E edge \in AllEdges :
          onConnect(edge.source, edge.sourceHandle, edge.target, edge.targetHandle)
     \/ deleteSelected
     \/ \E id \in NodeIds(nodes) : onNodesChangeEnd(id)
  /\ history' # history

\* C10: a push made after one or more undos discards every redoable command:
\* right after it canRedo() is false, and redo() changes neither the cursor
\* nor the graph.
C10_PushDiscardsRedoTail ==
  [][canRedo(history) /\ PushStep =>
       /\ ~canRedo(history')
       /\ HistoryRedo(Current)' = Current'
    ]_vars

\* a command was pushed over an undone one: the log starts with the second
\* node's ADD_NODE
C10_Witness ==
  /\ history.cursor = Len(history.log)
  /\ history.log # <<>>
  /\ history.log[1].type = "ADD_NODE"
  /\ history.log[1].payload.id = "2"

\* C4: a save called when the previous save has returned and nothing was
\* edited since that save was issued makes no create/update request and
\* returns the identifier the previous save obtained.
C4_SaveSkip ==
  [][\A i \in 1..Len(inflight) :
       saveDispatch(i) /\ inflight[i].clean =>
         /\ remoteCalls' = remoteCalls
         /\ lastSave'.ret = inflight[i].savedAgent.id
    ]_vars

DistinctKeys(nds) ==
  \A i, j \in 1..Len(nds) :
    i # j => NodeKey(nds[i].block_id, nds[i].position) # NodeKey(nds[j].block_id, nds[j].position)

\* the response nodes that carry the key of node
ResponseNodesFor(agent, node) ==
  {agent.nodes[j] : j \in {k \in 1..Len(agent.nodes) :
      NodeKey(agent.nodes[k].block_id, agent.nodes[k].metadata.position)
        = NodeKey(node.block_id, node.position)}}

IdPos(nds) == {[id |-> nds[i].id, position |-> nds[i].position] : i \in 1..Len(nds)}

\* C6: when the user edited the graph while a save was in flight, the graph
\* holds the same nodes at the same positions after the save returns as
\* before it returned.
C6_EditsSurviveSave ==
  [][\A i \in 1..Len(inflight) :
       saveResolved(i) /\ inflight[i].edited => IdPos(nodes') = IdPos(nodes)
    ]_vars

\* C7 as stated: when the request of a save fails and nothing else changed
\* the graph meanwhile, nodes (with their data), edges and saved graph are
\* what they were when saveAgent was called.
C7_FailedSaveUntouched ==
  [][\A i \in 1..Len(inflight) :
       saveFailed(i) /\ ~inflight[i].touched =>
         /\ nodes' = inflight[i].nodes
         /\ edges' = inflight[i].edges
         /\ savedAgent' = inflight[i].savedAgent
    ]_vars

\* C7 amended: ... are what they were when saveAgent was called, except that
\* every node's execution status has been cleared.
C7_FailedSaveClearsOnlyStatus ==
  [][\A i \in 1..Len(inflight) :
       saveFailed(i) /\ ~inflight[i].touched =>
         /\ nodes' = [k \in 1..Len(inflight[i].nodes) |->
                        [inflight[i].nodes[k] EXCEPT !.status = Undefined]]
         /\ edges' = inflight[i].edges
         /\ savedAgent' = inflight[i].savedAgent
    ]_vars

\* the second save failed after it had cleared the status an execution event
\* had set
C7_Witness ==
  /\ remoteCalls = 2
  /\ inflight = <<>>
  /\ lastSave.ret = "error"
  /\ \E k \in 1..Len(nodes) :
       /\ nodes[k].backend_id # Undefined
       /\ nodes[k].isOutputOpen
       /\ nodes[k].status = Undefined

\* C8: pasting N copied nodes appends exactly N nodes whose ids are pairwise
\* distinct and differ from every existing id, each at its source's copied
\* position plus (20, 20), without status or output; every node that was
\* there before is deselected and the N pasted nodes are selected.
C8_PasteNodes ==
  [][\A now \in 0..MaxClock :
       paste(now) /\ copiedNodes # <<>> =>
         LET N == Len(copiedNodes)
             old == Len(nodes)
         IN /\ Len(nodes') = old + N
            /\ \A j \in 1..old : nodes'[j] = [nodes[j] EXCEPT !.selected = FALSE]
            /\ \A k \in 1..N :
                 /\ nodes'[old + k].id \notin NodeIds(nodes)
                 /\ \A l \in 1..N : l # k => nodes'[old + l].id # nodes'[old + k].id
                 /\ nodes'[old + k].position
                      = Pos(copiedNodes[k].position.x + 20, copiedNodes[k].position.y + 20)
                 /\ nodes'[old + k].status = Undefined
                 /\ nodes'[old + k].output_data = Undefined
                 /\ nodes'[old + k].selected
    ]_vars

\* two saved nodes, the first with an execution status, have just been pasted
C8_Witness ==
  /\ Len(nodes) = 4
  /\ nodes[1].status = "COMPLETED"
  /\ \A k \in 1..2 :
       /\ nodes[k + 2].id = ToString(k + 2)
       /\ nodes[k + 2].backend_id = nodes[k].backend_id
       /\ nodes[k].backend_id = ServiceNodeId(k)
       /\ nodes[k + 2].position = Pos(nodes[k].position.x + 20, nodes[k].position.y + 20)
       /\ nodes[k + 2].status = Undefined
       /\ nodes[k + 2].output_data = Undefined
       /\ nodes[k + 2].selected
       /\ ~nodes[k].selected

\* C9: a pasted edge whose two endpoint nodes were copied with it runs
\* between the pasted copies of those nodes.
C9_PastedEdgesRehomed ==
  [][\A now \in 0..MaxClock :
       paste(now) /\ copiedNodes # <<>> =>
         \A i \in 1..Len(copiedEdges) :
           \A a, b \in 1..Len(copiedNodes) :
             copiedNodes[a].id = copiedEdges[i].source
               /\ copiedNodes[b].id = copiedEdges[i].target =>
                 /\ edges'[Len(edges) + i].source = nodes'[Len(nodes) + a].id
                 /\ edges'[Len(edges) + i].target = nodes'[Len(nodes) + b].id
    ]_vars

\* C11: after any sequence of pushes, undos and redos, canUndo() is false
\* exactly when the cursor is at the start of the log and canRedo() is false
\* exactly when the cursor is at the end of the log.
C11_CanUndoCanRedo ==
  /\ ~canUndo(history) <=> history.cursor = 0
  /\ ~canRedo(history) <=> history.cursor = Len(history.log)

\* two commands were pushed and one of them undone: both undo and redo are possible
C11_Witness ==
  /\ Len(history.log) >= 2
  /\ history.cursor = 1
  /\ canUndo(history)
  /\ canRedo(history)

\* C12: drag-start records where the node is and appends nothing; a position
\* change during the drag appends nothing; drag-end appends exactly one
\* UPDATE_NODE_POSITION command (from the drag-start to the drag-end position)
\* if the two are more than 50 units apart, and nothing otherwise.
C12_DragLogsOnce ==
  [][\A id \in NodeIds(nodes) :
       /\ onNodesChangeStart(id) =>
            /\ history' = history
            /\ initialPositionRef'[id] = FindNode(nodes, id).position
       /\ (\E pos \in Positions : onNodesChangeDragging(id, pos)) =>
            /\ history' = history
            /\ initialPositionRef' = initialPositionRef
       /\ onNodesChangeEnd(id) =>
            LET from == initialPositionRef[id]
                to == FindNode(nodes, id).position
                dx == to.x - from.x
                dy == to.y - from.y
            IN IF dx * dx + dy * dy > 50 * 50
               THEN /\ Len(history'.log) = history.cursor + 1
                    /\ SubSeq(history'.log, 1, history.cursor) = SubSeq(history.log, 1, history.cursor)
                    /\ history'.cursor = history.cursor + 1
                    /\ history'.log[history'.cursor].type = "UPDATE_NODE_POSITION"
                    /\ history'.log[history'.cursor].payload
                         = [nodeId |-> id, oldPosition |-> from, newPosition |-> to]
               ELSE history' = history
    ]_vars

\* a drag of 30 units and then a drag of 70 units have ended: the log holds the
\* creation of the node and the position command of the second drag only
C12_Witness ==
  /\ ~isDragging
  /\ Len(nodes) = 1
  /\ nodes[1].position = Pos(100, 0)
  /\ history.cursor = 2
  /\ Len(history.log) = 2
  /\ history.log[1].type = "ADD_NODE"
  /\ history.log[2].type = "UPDATE_NODE_POSITION"
  /\ history.log[2].payload.oldPosition = Pos(30, 0)
  /\ history.log[2].payload.newPosition = Pos(100, 0)

\* C13: the input payload composed for a node holds, for each declared
\* property that has a value, the recursively composed value if the property
\* is declared an object and the value itself otherwise; no declared property
\* without a value; an undeclared key if and only if the schema allows
\* additional properties, and then with its raw value.
C13_ComposedPayload ==
  \A c \in 1..Len(inflight) :
    \A i \in 1..Len(inflight[c].nodes) :
      LET node == inflight[c].nodes[i]
          schema == FindBlock(node.block_id).inputSchema
          values == node.hardcodedValues
          result == inflight[c].payload.nodes[i].input_default
      IN /\ DOMAIN result \subseteq DOMAIN schema.properties \cup DOMAIN values
         /\ \A key \in DOMAIN schema.properties :
              IF key \in DOMAIN values
              THEN /\ key \in DOMAIN result
                   /\ result[key] = IF schema.properties[key].type = "object"
                                    THEN getNestedData(schema.properties[key], values[key])
                                    ELSE values[key]
              ELSE key \notin DOMAIN result
         /\ \A key \in DOMAIN values \ DOMAIN schema.properties :
              /\ key \in DOMAIN result <=> schema.additionalProperties
              /\ key \in DOMAIN result => result[key] = values[key]

\* C14: after a load the command history is empty whatever was pushed before
\* it: canUndo() and canRedo() are false and undo() leaves the loaded graph as
\* it is.
C14_LoadClearsHistory ==
  [][\A graph \in LoadableGraphs :
       loadGraph(graph) =>
         /\ ~canUndo(history')
         /\ ~canRedo(history')
         /\ HistoryUndo(Current)' = Current'
    ]_vars

\* C15: merging the same execution event twice gives the nodes that merging
\* it once gives; merging two events for different nodes gives the same nodes
\* in either order; of two events for the same node, the later one decides
\* that node's status and output.
C15_MergeIdempotentCommutes ==
  \A e1, e2 \in ExecutionEvents :
    LET once == mergeExecutionData(nodes, <<e1>>)
        then == mergeExecutionData(once, <<e2>>)
    IN /\ mergeExecutionData(once, <<e1>>) = once
       /\ e1.node_id # e2.node_id =>
            then = mergeExecutionData(mergeExecutionData(nodes, <<e2>>), <<e1>>)
       /\ e1.node_id = e2.node_id =>
            \A j \in 1..Len(nodes) :
              nodes[j].backend_id = e2.node_id =>
                /\ then[j].status = e2.status
                /\ then[j].output_data = e2.output_data

\* two saved nodes, and an event has been merged onto the first
C15_Witness ==
  /\ Len(nodes) = 2
  /\ nodes[1].backend_id = ServiceNodeId(1)
  /\ nodes[2].backend_id = ServiceNodeId(2)
  /\ nodes[1].status = "COMPLETED"
  /\ nodes[1].isOutputOpen
  /\ nodes[2].status = Undefined

\* C16: a save that is not skipped requests an update if and only if a saved
\* graph exists when it sends its request, and a create otherwise; an update
\* is the template variant exactly when the saved graph is a template,
\* whatever asTemplate is.
C16_Dispatch ==
  [][\A i \in 1..Len(inflight) :
       saveDispatch(i) /\ remoteCalls' = remoteCalls + 1 =>
         LET api == inflight[i].api
         IN /\ api \in {"updateGraph", "updateTemplate"} <=> savedAgent # NoAgent
            /\ api \in {"createGraph", "createTemplate"} <=> savedAgent = NoAgent
            /\ savedAgent # NoAgent => (api = "updateTemplate" <=> savedAgent.is_template)
    ]_vars

\* C17: connecting from a source handle that the source node's output schema
\* does not declare raises no error (the type is reported as "unknown") and
\* adds the edge.
C17_UnknownHandleConnects ==
  \A j \in 1..Len(nodes) :
    \A sh \in ConnectHandles :
      sh \notin DOMAIN OutputSchemaOf(nodes[j]).properties =>
        ~getOutputTypeThrows(nodes, nodes[j].id, sh)

\* C18: after a load of a graph that has links, every node's connection list
\* holds exactly the loaded edges that start or end at the node.
C18_LoadFillsConnectionCache ==
  [][\A graph \in LoadableGraphs :
       loadGraph(graph) /\ graph.links # <<>> =>
         /\ Len(edges') = Len(graph.links)
         /\ \A j \in 1..Len(nodes') :
              /\ \A i \in 1..Len(edges') :
                   Len(Matching(nodes'[j], edges'[i]))
                     = IF nodes'[j].id \in {edges'[i].source, edges'[i].target} THEN 1 ELSE 0
              /\ \A k \in 1..Len(nodes'[j].connections) :
                   \E i \in 1..Len(edges') : SameConn(nodes'[j].connections[k], edges'[i])
    ]_vars

\* C19: deleting edges takes from the connection lists only the entries of the
\* deleted edges: an edge that stays keeps its entries in both its endpoints.
C19_DeleteKeepsOtherEntries ==
  [][deleteSelected =>
       \A i \in 1..Len(edges') :
         \A j \in 1..Len(nodes) :
           \A m \in 1..Len(nodes') :
             nodes'[m].id = nodes[j].id =>
               Matching(nodes'[m], edges'[i]) = Matching(nodes[j], edges'[i])
    ]_vars

\* C20: an execution event for the service id of a node of a loaded graph
\* (not saved since) sets that node's status and output and opens its panel.
C20_EventReachesLoadedNode ==
  remoteCalls = 0 /\ inflight = <<>> /\ savedAgent # NoAgent =>
    \A e \in ExecutionEvents :
      \A j \in 1..Len(nodes) :
        (nodes[j].id = e.node_id
           /\ \E k \in 1..Len(savedAgent.nodes) : savedAgent.nodes[k].id = nodes[j].id) =>
          LET merged == mergeExecutionData(nodes, <<e>>)[j]
          IN /\ merged.status = e.status
             /\ merged.output_data = e.output_data
             /\ merged.isOutputOpen

\* C23: a save that succeeds neither adds nor removes nodes: when it resolves,
\* the node list holds each node the save was issued with exactly once.
C23_SaveKeepsNodes ==
  [][\A i \in 1..Len(inflight) :
       saveResolved(i) =>
         /\ Len(nodes') = Len(inflight[i].nodes)
         /\ \A k \in 1..Len(inflight[i].nodes) :
              Cardinality({m \in 1..Len(nodes') : nodes'[m].id = inflight[i].nodes[k].id}) = 1
    ]_vars

\* C24: no two nodes of the node list have the same id, and the id counter
\* never decreases.
C24_UniqueNodeIds ==
  [][/\ nodeId' >= nodeId
     /\ \A i, j \in 1..Len(nodes') : i # j => nodes'[i].id # nodes'[j].id
    ]_vars

\* C22: every edge of the edge list has a source and a target that are ids of
\* nodes of the node list.
C22_NoDanglingEdges ==
  \A i \in 1..Len(edges) :
    /\ edges[i].source \in NodeIds(nodes)
    /\ edges[i].target \in NodeIds(nodes)

\* C21: copy and paste leave the command history (log and cursor) as it was,
\* and an undo right after a paste undoes the command the cursor pointed at
\* before the paste while every pasted node and edge stays.
C21_ClipboardNotLogged ==
  [][/\ copy => history' = history
     /\ paste(clock') =>
          LET pasted == [history |-> history', g |-> [nodes |-> nodes', edges |-> edges']]
              undone == HistoryUndo(pasted)
              newNodes == pastedNodes(copiedNodes, nodeId)
              newEdges == pastedEdges(copiedEdges, newNodes, clock')
          IN /\ history' = history
             /\ canUndo(history) /\ copiedNodes # <<>> =>
                  /\ undone.history = HistoryUndo(Current).history
                  /\ \A i \in 1..Len(newNodes) : newNodes[i] \in Range(undone.g.nodes)
                  /\ \A i \in 1..Len(newEdges) : newEdges[i] \in Range(undone.g.edges)
                  /\ NodeIds(undone.g.nodes)
                       = NodeIds(HistoryUndo(Current).g.nodes) \cup NodeIds(newNodes)
    ]_vars

\* node 1 was added, copied and pasted as node 2, and the undo that followed
\* removed node 1 and left the pasted node
C21_Witness ==
  /\ history = [log |-> history.log, cursor |-> 0]
  /\ Len(history.log) = 1
  /\ history.log[1].type = "ADD_NODE"
  /\ NodeIds(nodes) = {"2"}
  /\ nodes[1].position = Pos(20, 20)

====
